---- MODULE Spec2Model ----
(***************************************************************************)
(* Model of the unit filter engine of src/src/unit_filter.cpp: the factory *)
(* construct(), the constructor pass of basic_unit_filter_impl over the    *)
(* ordered children of a filter description, the match evaluator           *)
(* (matches / internal_matches_filter) and the two map queries             *)
(* (all_matches_on_map / first_match_on_map) of both implementations.      *)
(*                                                                         *)
(* The attribute checks of internal_matches_filter that are plain          *)
(* equality tests on one unit attribute (name, speaker, type, variation,   *)
(* race, gender, role, ...) all have the shape of the id test; the model   *)
(* keeps the id test and the checks that reach a collaborator: the         *)
(* location and side sub-filters, vision, adjacency, find_in and           *)
(* lua_function, and the x/y range check.  The [filter_wml] blocks and the  *)
(* formula check are not part of the model.                                *)
(***************************************************************************)
EXTENDS Integers, Sequences, FiniteSets, TLC

VARIABLES
    world,    \* the filter_context: units, fog, stored variables, lua kernel
    desc,     \* the description the filter is constructed from
    filter,   \* None, or the outcome of the construction: a filter or the error raised
    scoped,   \* game_data::scoped_variables, the stack of scoped aliases
    call      \* record of the last query made of the filter

vars == <<world, desc, filter, scoped, call>>

(***************************************************************************)
(* Bounds of the model.                                                    *)
(***************************************************************************)
\* longest list of combinator children ([and], [or], [not]) of one node
MaxCond == 2
\* longest list of children of one node in the construction pass
MaxTags == 3
\* most units on the map
MaxUnits == 2

(***************************************************************************)
(* Locations, units and the world.                                         *)
(***************************************************************************)
Loc(x, y) == [x |-> x, y |-> y]

\* map_location::null_location, the location of a recall list unit
NullLoc == Loc(-1000, -1000)

\* map_location::valid()
Valid(loc) == loc.x >= 0 /\ loc.y >= 0

\* the hexes of the board
Board == {Loc(0, 0), Loc(0, 1), Loc(1, 0)}

\* gamemap::on_board(loc)
OnBoard(loc) == loc \in Board

\* a hex beyond the border of the board
OffBoard == Loc(2, 0)

\* the locations a query is made with
AllLocs == Board \cup {NullLoc, OffBoard}

Sides == {1, 2}

\* the value of an attribute that is not set (config::attribute_value::blank)
Blank == "<blank>"

\* an unset optional value (a null pointer, an empty boost::optional or
\* boost::scoped_ptr) and a set one
None == <<>>
Some(v) == <<v>>

(***************************************************************************)
(* Filter descriptions (vconfig).  A description is a record of the scalar *)
(* attributes read by the constructor and the ordered list of its child    *)
(* blocks, each a pair of the tag (key) and the child description (cfg).   *)
(* The fields locs, sides and viewers stand for what the terrain_filter    *)
(* and side_filter built from the block answer: the locations and sides    *)
(* they match and the teams side_filter::get_teams() returns.              *)
(***************************************************************************)
BlankDesc ==
    [null |-> FALSE, id |-> Blank, x |-> Blank, y |-> Blank,
     find_in |-> Blank, lua_function |-> Blank,
     visible |-> Blank, viewers |-> {}, adjacent |-> Blank, is_enemy |-> Blank,
     count |-> Blank, locs |-> {}, sides |-> {}, children |-> <<>>]

\* the null vconfig
NullDesc == [BlankDesc EXCEPT !.null = TRUE]

Child(key, cfg) == [key |-> key, cfg |-> cfg]

\* conditional::string_to_TYPE succeeds on these tags and throws bad_enum_cast on the others
ConditionalTags == {"and", "or", "not"}

\* utils::split on the comma separated lists the model uses
Split(str) ==
    CASE str = "a" -> <<"a">>
      [] str = "b" -> <<"b">>
      [] str = "a,b" -> <<"a", "b">>
      [] OTHER -> <<>>

\* lazy_string_list::get of an attribute: no list when blank, else the split string
LazyList(attr) == IF attr = Blank THEN <<>> ELSE Split(attr)

\* config::attribute_value::to_bool(def)
ToBool(attr, def) ==
    CASE attr \in {"yes", "true"} -> TRUE
      [] attr \in {"no", "false"} -> FALSE
      [] OTHER -> def

\* the six directions in the order of map_location::default_dirs()
DefaultDirs == <<"n", "ne", "se", "s", "sw", "nw">>

\* map_location::parse_directions on the direction lists the model uses
ParseDirections(attr) ==
    CASE attr = "n" -> <<"n">>
      [] attr = "s" -> <<"s">>
      [] attr = "n,s" -> <<"n", "s">>
      [] OTHER -> <<>>

\* config::attribute_value::empty(): never set, or set to the empty string
Empty(attr) == attr \in {Blank, ""}

\* config::attribute_value::str(): the empty string for a blank attribute
Str(attr) == IF attr = Blank THEN "" ELSE attr

\* the 0-based coordinates one component of map_location::matches_range admits,
\* on the components the model uses: a number or a range of the 1-based
\* coordinates of WML; a word reads as 0 (atoi), the coordinate before the first
InRange(v, str) ==
    CASE str = "1" -> v + 1 = 1
      [] str = "1-2" -> 1 <= v + 1 /\ v + 1 <= 2
      [] str = "recall" -> v + 1 = 0
      [] OTHER -> FALSE

\* map_location::matches_range(xloc, yloc): an empty component admits every coordinate
MatchesRange(loc, xloc, yloc) ==
    /\ xloc # "" => InRange(loc.x, xloc)
    /\ yloc # "" => InRange(loc.y, yloc)

\* utils::parse_ranges on the range lists the model uses
ParseRanges(attr) ==
    CASE attr = "1-6" -> <<<<1, 6>>>>
      [] attr = "0" -> <<<<0, 0>>>>
      [] attr = "2-6" -> <<<<2, 6>>>>
      [] attr = "0,2" -> <<<<0, 0>>, <<2, 2>>>>
      [] OTHER -> <<>>

(***************************************************************************)
(* Compiled filters.                                                       *)
(***************************************************************************)
\* null_unit_filter_impl
NullImpl == [kind |-> "null"]

\* basic_unit_filter_impl after its member initialisers, before the pass over the children
InitialImpl(vcfg) ==
    [kind |-> "basic",
     cond_children_ |-> <<>>, cond_child_types_ |-> <<>>,
     cfg_id_ |-> vcfg.id, cfg_x_ |-> vcfg.x, cfg_y_ |-> vcfg.y,
     cfg_filter_loc_ |-> None, cfg_filter_side_ |-> None,
     vision_filters_viewers_lists_ |-> <<>>, vision_filters_visible_attr_ |-> <<>>,
     filter_adj_filters_ |-> <<>>, filter_adj_is_enemy_ |-> <<>>,
     filter_adj_dirs_ |-> <<>>, filter_adj_counts_ |-> <<>>,
     cfg_find_in_ |-> vcfg.find_in, cfg_lua_function_ |-> vcfg.lua_function]

Built(impl) == [ok |-> TRUE, impl |-> impl]

\* the exception FAIL throws, with the child index the pass had reached and
\* whether it came out of the constructor of a nested filter
Raised(error, at, nested) == [ok |-> FALSE, error |-> error, at |-> at, nested |-> nested]

MultipleLocation == "encountered multiple [filter_location] children"
MultipleSide == "encountered multiple [filter_side] children"

\* [filter_vision]: the required visibility and the viewer set
VisionTag(impl, f) ==
    Built([impl EXCEPT
        !.vision_filters_visible_attr_ = Append(@, ToBool(f.visible, TRUE)),
        !.vision_filters_viewers_lists_ = Append(@, f.viewers)])

\* a [filter_location] that replaces an earlier one without a word
LocationTagLastWins(impl, f, i) == Built([impl EXCEPT !.cfg_filter_loc_ = Some([locs |-> f.locs])])

\* [filter_location]: built once, FAIL on a second one
LocationTag(impl, f, i) ==
    IF impl.cfg_filter_loc_ = None
    THEN Built([impl EXCEPT !.cfg_filter_loc_ = Some([locs |-> f.locs])])
    ELSE Raised(MultipleLocation, i, FALSE)

\* [filter_side]: built once, FAIL on a second one
SideTag(impl, f, i) ==
    IF impl.cfg_filter_side_ = None
    THEN Built([impl EXCEPT !.cfg_filter_side_ = Some([sides |-> f.sides])])
    ELSE Raised(MultipleSide, i, FALSE)

RECURSIVE construct(_)
RECURSIVE CtorLoop(_, _, _)

\* [and], [or], [not]: the nested filter and its type are appended
ConditionalTag(impl, cond, i) ==
    LET sub == construct(cond.cfg) IN
    IF ~sub.ok THEN Raised(sub.error, i, TRUE)
    ELSE Built([impl EXCEPT
        !.cond_children_ = Append(@, sub.impl),
        !.cond_child_types_ = Append(@, cond.key)])

\* [filter_adjacent]: the nested filter, the directions, the enemy flag and the counts
AdjacentTag(impl, f, i) ==
    LET sub == construct(f) IN
    IF ~sub.ok THEN Raised(sub.error, i, TRUE)
    ELSE Built([impl EXCEPT
        !.filter_adj_filters_ = Append(@, sub.impl),
        !.filter_adj_dirs_ =
            Append(@, IF f.adjacent # Blank THEN ParseDirections(f.adjacent) ELSE DefaultDirs),
        !.filter_adj_is_enemy_ =
            Append(@, IF f.is_enemy = Blank THEN None ELSE Some(ToBool(f.is_enemy, FALSE))),
        !.filter_adj_counts_ =
            Append(@, IF f.count # Blank THEN ParseRanges(f.count) ELSE ParseRanges("1-6"))])

\* one turn of the while loop of the constructor, on child i
CtorStep(vcfg, i, impl) ==
    LET cond == vcfg.children[i] IN
    IF cond.key \in ConditionalTags THEN ConditionalTag(impl, cond, i)
    ELSE IF cond.key = "filter_vision" THEN VisionTag(impl, cond.cfg)
    ELSE IF cond.key = "filter_adjacent" THEN AdjacentTag(impl, cond.cfg, i)
    ELSE IF cond.key = "filter_location" THEN LocationTag(impl, cond.cfg, i)
    ELSE IF cond.key = "filter_side" THEN SideTag(impl, cond.cfg, i)
    ELSE Built(impl)

\* the while loop of the constructor from child i on
CtorLoop(vcfg, i, impl) ==
    IF i > Len(vcfg.children) THEN Built(impl)
    ELSE LET r == CtorStep(vcfg, i, impl) IN
         IF r.ok THEN CtorLoop(vcfg, i + 1, r.impl) ELSE r

\* the constructor of basic_unit_filter_impl
BasicCtor(vcfg) == CtorLoop(vcfg, 1, InitialImpl(vcfg))

\* the factory: the null implementation for a null description, else the basic one
construct(vcfg) == IF vcfg.null THEN Built(NullImpl) ELSE BasicCtor(vcfg)

(***************************************************************************)
(* The world behind the filter_context.  A unit carries its id, side and   *)
(* location, what unit::invisible answers for it (hides) and what the lua  *)
(* callback answers for it (lua).  w.units lists the units of the map in   *)
(* the iteration order of the unit_map; w.fog[s] is the set of locations   *)
(* fogged for team s; w.gd is the game_data (None when the context has     *)
(* none), mapping a variable name to what the store holds under it;        *)
(* w.lk tells whether the context has a lua kernel.                        *)
(***************************************************************************)
Unit(id, side, loc, hides, lua) ==
    [id |-> id, side |-> side, loc |-> loc, hides |-> hides, lua |-> lua]

\* get_adjacent_tiles: the neighbour of a in direction dir on the hex grid
Adjacent(a, dir) ==
    LET even == a.x % 2 = 0 IN
    CASE dir = "n" -> Loc(a.x, a.y - 1)
      [] dir = "ne" -> Loc(a.x + 1, a.y - (IF even THEN 1 ELSE 0))
      [] dir = "se" -> Loc(a.x + 1, a.y + (IF even THEN 0 ELSE 1))
      [] dir = "s" -> Loc(a.x, a.y + 1)
      [] dir = "sw" -> Loc(a.x - 1, a.y + (IF even THEN 0 ELSE 1))
      [] dir = "nw" -> Loc(a.x - 1, a.y - (IF even THEN 1 ELSE 0))

\* unit_map::find(loc): the positions in w.units of the unit standing at loc
FindUnit(w, loc) == {k \in 1..Len(w.units) : w.units[k].loc = loc}

\* team::is_enemy: the two sides of the model are enemies of each other
IsEnemy(side, other) == side # other

\* team::fogged(loc) of the viewer's team
Fogged(w, viewer, loc) == loc \in w.fog[viewer]

\* in_ranges(n, ranges)
InRanges(n, ranges) == \E k \in 1..Len(ranges) : ranges[k][1] <= n /\ n <= ranges[k][2]

\* std::find over a string list
Find(list, str) == \E k \in 1..Len(list) : list[k] = str

(***************************************************************************)
(* Evaluation.  A query threads an evaluation state st through the calls   *)
(* it makes: st.result is the value returned by the call just finished,    *)
(* st.scoped the stack of scoped aliases of the context, and st.trace the  *)
(* observable events in order: every matches call ("matches"), every       *)
(* entry of the local predicate with the aliases bound at that time        *)
(* ("local"), every construction and destruction of a scoped_xy_unit       *)
(* ("bind", "release") and every run of the lua callback ("lua").  A call  *)
(* is named by its path from the queried filter: <<>> is the filter        *)
(* itself, a step names a combinator child or the nested filter of an      *)
(* adjacency sub-filter applied to the neighbour in one direction.         *)
(***************************************************************************)
Step(k, i, d) == [k |-> k, i |-> i, d |-> d]

Event(ev, path, loc, st) == [ev |-> ev, path |-> path, loc |-> loc, scoped |-> st.scoped]

Log(st, ev, path, loc) == [st EXCEPT !.trace = Append(@, Event(ev, path, loc, st))]

Return(st, b) == [st EXCEPT !.result = b]

\* scoped_xy_unit auto_store("this_unit", loc.x, loc.y, units): the alias is
\* pushed on the stack of scoped variables of the context
Acquire(st, loc, path) ==
    Log([st EXCEPT !.scoped = Append(@, [name |-> "this_unit", loc |-> loc, by |-> path])],
        "bind", path, loc)

\* ~scoped_xy_unit: the alias is popped
Release(st, loc, path) ==
    Log([st EXCEPT !.scoped = SubSeq(@, 1, Len(@) - 1)], "release", path, loc)

\* no exception is propagating
NoThrow == "<none>"

InvalidVariablename == "invalid_variablename_exception"

Throw(st, what) == [st EXCEPT !.thrown = what]

\* the evaluation state a query starts from
StartState(stack) == [result |-> TRUE, scoped |-> stack, trace |-> <<>>, thrown |-> NoThrow]

(***************************************************************************)
(* The checks of the local predicate, in the order of the code.            *)
(***************************************************************************)
\* if (!cfg_id_.empty()) { if (!cfg_id_.find(u.id())) return false; }
IdCheck(impl, u) ==
    LazyList(impl.cfg_id_) # <<>> => Find(LazyList(impl.cfg_id_), u.id)

\* if (cfg_filter_loc_) { if (!cfg_filter_loc_->match(loc)) return false; }
LocationCheck(impl, loc) ==
    impl.cfg_filter_loc_ # None => loc \in impl.cfg_filter_loc_[1].locs

\* if (cfg_filter_side_) { if (!cfg_filter_side_->match(u.side())) return false; }
SideCheck(impl, u) ==
    impl.cfg_filter_side_ # None => u.side \in impl.cfg_filter_side_[1].sides

\* a range check that fails whenever only one of x and y is set
XYCheckPairOnly(impl, loc) ==
    IF impl.cfg_x_ = Blank /\ impl.cfg_y_ = Blank THEN TRUE
    ELSE IF impl.cfg_x_ = "recall" /\ impl.cfg_y_ = "recall" THEN ~OnBoard(loc)
    ELSE IF impl.cfg_x_ = Blank \/ impl.cfg_y_ = Blank THEN FALSE
    ELSE IF Empty(impl.cfg_x_) /\ Empty(impl.cfg_y_) THEN FALSE
    ELSE MatchesRange(loc, Str(impl.cfg_x_), Str(impl.cfg_y_))

\* if (!cfg_x_.blank() || !cfg_y_.blank()) { recall/recall: the location is
\* not on the board; both empty: false; else loc.matches_range(cfg_x_, cfg_y_) }
XYCheck(impl, loc) ==
    IF impl.cfg_x_ = Blank /\ impl.cfg_y_ = Blank THEN TRUE
    ELSE IF impl.cfg_x_ = "recall" /\ impl.cfg_y_ = "recall" THEN ~OnBoard(loc)
    ELSE IF Empty(impl.cfg_x_) /\ Empty(impl.cfg_y_) THEN FALSE
    ELSE MatchesRange(loc, Str(impl.cfg_x_), Str(impl.cfg_y_))

\* a vision sub-filter that asks every viewer to see the unit as required
VisionFoundAll(impl, i, u, loc, w) ==
    \A viewer \in impl.vision_filters_viewers_lists_[i] :
        impl.vision_filters_visible_attr_[i] # (Fogged(w, viewer, loc) \/ u.hides)

\* vision sub-filter i: found is set at the first viewer for which
\* vision_filters_visible_attr_[i] != unit_hidden
VisionFound(impl, i, u, loc, w) ==
    \E viewer \in impl.vision_filters_viewers_lists_[i] :
        LET fogged == Fogged(w, viewer, loc)
            hiding == u.hides
            unit_hidden == fogged \/ hiding
        IN  impl.vision_filters_visible_attr_[i] # unit_hidden

\* the loop over the vision sub-filters: if (!found) return false
VisionChecks(impl, u, loc, w) ==
    \A i \in 1..Len(impl.vision_filters_viewers_lists_) : VisionFound(impl, i, u, loc, w)

RECURSIVE matches(_, _, _, _, _, _)
RECURSIVE AdjDirLoop(_, _, _, _, _, _, _, _)
RECURSIVE AdjLoop(_, _, _, _, _, _, _)

\* a count that takes every neighbour the nested filter matches, whatever
\* its relation to the tested unit
AdjCountAnyRelation(impl, i, acc, u, nb, m) ==
    IF m.thrown # NoThrow \/ ~m.result THEN [st |-> m, n |-> acc.n]
    ELSE [st |-> m, n |-> acc.n + 1]

\* what one neighbour adds to acc once the nested filter has answered m for
\* it: a neighbour that matches is counted when the enemy requirement holds
AdjCount(impl, i, acc, u, nb, m) ==
    LET is_enemy == impl.filter_adj_is_enemy_[i] IN
    IF m.thrown # NoThrow \/ ~m.result THEN [st |-> m, n |-> acc.n]
    ELSE IF is_enemy = None \/ is_enemy[1] = IsEnemy(u.side, nb.side)
    THEN [st |-> m, n |-> acc.n + 1]
    ELSE [st |-> m, n |-> acc.n]

\* one turn of the loop over the directions, on the unit nb found in direction dir
AdjNeighbour(impl, i, dir, acc, u, nb, w, path) ==
    AdjCount(impl, i, acc, u, nb,
             matches(impl.filter_adj_filters_[i], nb, nb.loc, w, acc.st,
                     Append(path, Step("adj", i, dir))))

\* the loop over the directions of adjacency sub-filter i, from direction j
\* on; acc.st is the evaluation state and acc.n the match_count so far
AdjDirLoop(impl, i, j, acc, u, loc, w, path) ==
    LET dirs == impl.filter_adj_dirs_[i] IN
    IF j > Len(dirs) \/ acc.st.thrown # NoThrow THEN acc
    ELSE
        LET found == FindUnit(w, Adjacent(loc, dirs[j])) IN
        IF found = {} THEN AdjDirLoop(impl, i, j + 1, acc, u, loc, w, path)
        ELSE AdjDirLoop(impl, i, j + 1,
                        AdjNeighbour(impl, i, dirs[j], acc, u,
                                     w.units[CHOOSE k \in found : TRUE], w, path),
                        u, loc, w, path)

\* the end of one turn of the loop over the adjacency sub-filters: r holds the
\* match_count of sub-filter i
AdjRange(impl, i, u, loc, w, r, path) ==
    IF r.st.thrown # NoThrow THEN r.st
    ELSE IF ~InRanges(r.n, impl.filter_adj_counts_[i]) THEN Return(r.st, FALSE)
    ELSE AdjLoop(impl, i + 1, u, loc, w, r.st, path)

\* the loop over the adjacency sub-filters, from sub-filter i on
AdjLoop(impl, i, u, loc, w, st, path) ==
    IF i > Len(impl.filter_adj_filters_) THEN Return(st, TRUE)
    ELSE AdjRange(impl, i, u, loc, w,
                  AdjDirLoop(impl, i, 1, [st |-> st, n |-> 0], u, loc, w, path), path)

\* the variable names that are valid; any other name is an invalid one
VariableNames == {"units"}

\* gd->get_variable_access_read(name).as_array(): the ids of the elements of the
\* array stored under the name; no element when the variable is missing or holds
\* a scalar; throws invalid_variablename_exception on an invalid name
AsArray(gd, name) ==
    IF name \notin VariableNames THEN [thrown |-> TRUE, ids |-> <<>>]
    ELSE [thrown |-> FALSE, ids |-> IF gd[name].kind = "array" THEN gd[name].ids ELSE <<>>]

\* a find_in check without the catch clause: the exception leaves the predicate
FindInCheckNoCatch(impl, u, w, st) ==
    IF impl.cfg_find_in_ = Blank \/ w.gd = None THEN Return(st, TRUE)
    ELSE IF AsArray(w.gd[1], impl.cfg_find_in_).thrown THEN Throw(st, InvalidVariablename)
    ELSE Return(st, Find(AsArray(w.gd[1], impl.cfg_find_in_).ids, u.id))

\* the find_in check
FindInCheck(impl, u, w, st) ==
    IF impl.cfg_find_in_ = Blank THEN Return(st, TRUE)
    ELSE IF w.gd = None THEN Return(st, TRUE)
    ELSE
        LET vi == AsArray(w.gd[1], impl.cfg_find_in_)
            found_id == Find(vi.ids, u.id)
        IN  IF vi.thrown THEN Return(st, FALSE)
            ELSE IF ~found_id THEN Return(st, FALSE)
            ELSE Return(st, TRUE)

\* a lua_function check that fails when the context has no kernel
LuaCheckNeedsKernel(impl, u, loc, w, st, path) ==
    IF impl.cfg_lua_function_ = Blank THEN Return(st, TRUE)
    ELSE IF ~w.lk THEN Return(st, FALSE)
    ELSE Return(Log(st, "lua", path, loc), u.lua)

\* the lua_function check: the callback runs only when the context has a kernel
LuaCheck(impl, u, loc, w, st, path) ==
    IF impl.cfg_lua_function_ = Blank THEN Return(st, TRUE)
    ELSE IF ~w.lk THEN Return(st, TRUE)
    ELSE
        LET b == u.lua IN
        IF ~b THEN Return(Log(st, "lua", path, loc), FALSE)
        ELSE Return(Log(st, "lua", path, loc), TRUE)

\* the end of the local predicate: formula and lua_function, after find_in answered f
AfterFindIn(impl, u, loc, w, f, path) ==
    IF f.thrown # NoThrow \/ ~f.result THEN f
    ELSE LuaCheck(impl, u, loc, w, f, path)

\* the local predicate after the adjacency sub-filters answered a
AfterAdjacent(impl, u, loc, w, a, path) ==
    IF a.thrown # NoThrow \/ ~a.result THEN a
    ELSE AfterFindIn(impl, u, loc, w, FindInCheck(impl, u, w, a), path)

\* the local predicate on the evaluation state s0, which holds the entry in its trace
LocalChecks(impl, u, loc, w, s0, path) ==
    IF ~IdCheck(impl, u) THEN Return(s0, FALSE)
    ELSE IF ~LocationCheck(impl, loc) THEN Return(s0, FALSE)
    ELSE IF ~SideCheck(impl, u) THEN Return(s0, FALSE)
    ELSE IF ~XYCheck(impl, loc) THEN Return(s0, FALSE)
    ELSE IF ~VisionChecks(impl, u, loc, w) THEN Return(s0, FALSE)
    ELSE AfterAdjacent(impl, u, loc, w, AdjLoop(impl, 1, u, loc, w, s0, path), path)

\* basic_unit_filter_impl::internal_matches_filter
InternalMatchesFilter(impl, u, loc, w, st, path) ==
    LocalChecks(impl, u, loc, w, Log(st, "local", path, loc), path)

\* a release that is skipped on the path of a failed predicate
ReleaseIfMatched(st, loc, path) == IF st.result THEN Release(st, loc, path) ELSE st

\* a local predicate whose alias is released by hand, on one exit path only
ScopedLocalLeak(impl, u, loc, w, st, path) ==
    IF Valid(loc)
    THEN ReleaseIfMatched(
             InternalMatchesFilter(impl, u, loc, w, Acquire(st, loc, path), path), loc, path)
    ELSE InternalMatchesFilter(impl, u, loc, w, st, path)

\* the first statement of basic_unit_filter_impl::matches: the local predicate,
\* inside the scope of the scoped_xy_unit when the location is valid
ScopedLocal(impl, u, loc, w, st, path) ==
    IF Valid(loc)
    THEN Release(InternalMatchesFilter(impl, u, loc, w, Acquire(st, loc, path), path),
                 loc, path)
    ELSE InternalMatchesFilter(impl, u, loc, w, st, path)

\* whether the right operand of the operator of a combinator is evaluated when
\* the accumulator is acc: the && of [and] and [not] and the || of [or] evaluate
\* it only when the left operand does not decide the result
Evaluates(type, acc) ==
    CASE type = "and" -> acc
      [] type = "or" -> ~acc
      [] type = "not" -> acc

\* a fold in which [not] is applied like [and]
CombineNotAsAnd(type, child) == child

\* the accumulator after a combinator whose child was evaluated and answered
\* child: it is decided by the child alone, the left operand being the neutral one
Combine(type, child) ==
    IF child.thrown # NoThrow THEN child
    ELSE CASE type = "and" -> child
           [] type = "or" -> child
           [] type = "not" -> Return(child, ~child.result)

\* the accumulator after a combinator under operators that evaluate both operands
EagerCombine(type, acc, child) ==
    IF child.thrown # NoThrow THEN child
    ELSE CASE type = "and" -> Return(child, acc /\ child.result)
           [] type = "or" -> Return(child, acc \/ child.result)
           [] type = "not" -> Return(child, acc /\ ~child.result)

\* a turn of the loop that evaluates the child whatever the accumulator
CondStepEager(impl, i, u, loc, w, st, path) ==
    EagerCombine(impl.cond_child_types_[i], st.result,
                 matches(impl.cond_children_[i], u, loc, w, st,
                         Append(path, Step("cond", i, ""))))

\* one turn of the loop over the combinator children, on child i
CondStep(impl, i, u, loc, w, st, path) ==
    IF Evaluates(impl.cond_child_types_[i], st.result)
    THEN Combine(impl.cond_child_types_[i],
                 matches(impl.cond_children_[i], u, loc, w, st,
                         Append(path, Step("cond", i, ""))))
    ELSE st

RECURSIVE CondLoop(_, _, _, _, _, _, _)

\* the loop over the combinator children from child i on
CondLoop(impl, i, u, loc, w, st, path) ==
    IF i > Len(impl.cond_children_) \/ st.thrown # NoThrow THEN st
    ELSE CondLoop(impl, i + 1, u, loc, w, CondStep(impl, i, u, loc, w, st, path), path)

\* basic_unit_filter_impl::matches
BasicMatches(impl, u, loc, w, st, path) ==
    CondLoop(impl, 1, u, loc, w, ScopedLocal(impl, u, loc, w, st, path), path)

\* a null filter that matches only the units placed on the map
NullMatchesOnMap(impl, u, loc, w, st, path) == Return(st, Valid(loc))

\* null_unit_filter_impl::matches
NullMatches(impl, u, loc, w, st, path) == Return(st, TRUE)

\* the virtual call impl_->matches(u, loc)
Dispatch(impl, u, loc, w, s0, path) ==
    IF impl.kind = "null" THEN NullMatches(impl, u, loc, w, s0, path)
    ELSE BasicMatches(impl, u, loc, w, s0, path)

\* unit_filter::matches(u, loc): the call goes to the implementation
matches(impl, u, loc, w, st, path) ==
    Dispatch(impl, u, loc, w, Log(st, "matches", path, loc), path)

(***************************************************************************)
(* The map queries.  A unit of the map is returned as its position in      *)
(* w.units (the pointer to it); first_match returns None for the empty     *)
(* handle.                                                                 *)
(***************************************************************************)
RECURSIVE AllLoop(_, _, _, _)

\* a turn that pushes the unit without looking at the answer
AllPushEvery(acc, k, m) == [st |-> m, ret |-> Append(acc.ret, k)]

\* one turn of the loop of all_matches_on_map: unit k is pushed when matches answered m
AllPush(acc, k, m) ==
    [st |-> m, ret |-> IF m.thrown = NoThrow /\ m.result THEN Append(acc.ret, k) ELSE acc.ret]

\* the loop of basic_unit_filter_impl::all_matches_on_map from unit k on;
\* acc.st is the evaluation state and acc.ret the vector built so far
AllLoop(impl, k, w, acc) ==
    IF k > Len(w.units) \/ acc.st.thrown # NoThrow THEN acc
    ELSE AllLoop(impl, k + 1, w,
                 AllPush(acc, k, matches(impl, w.units[k], w.units[k].loc, w, acc.st, <<>>)))

\* basic_unit_filter_impl::all_matches_on_map
BasicAllMatches(impl, w, st) == AllLoop(impl, 1, w, [st |-> st, ret |-> <<>>])

\* null_unit_filter_impl::all_matches_on_map: every unit is pushed
NullAllMatches(impl, w, st) == [st |-> st, ret |-> [k \in 1..Len(w.units) |-> k]]

all_matches_on_map(impl, w, st) ==
    IF impl.kind = "null" THEN NullAllMatches(impl, w, st) ELSE BasicAllMatches(impl, w, st)

RECURSIVE FirstLoop(_, _, _, _)

\* one turn of the loop of first_match_on_map: the handle of unit k is returned
\* when matches answered m
FirstReturn(impl, k, w, m) ==
    IF m.thrown = NoThrow /\ m.result THEN [st |-> m, ret |-> Some(k)]
    ELSE FirstLoop(impl, k + 1, w, m)

\* the loop of basic_unit_filter_impl::first_match_on_map from unit k on
FirstLoop(impl, k, w, st) ==
    IF k > Len(w.units) \/ st.thrown # NoThrow THEN [st |-> st, ret |-> None]
    ELSE FirstReturn(impl, k, w, matches(impl, w.units[k], w.units[k].loc, w, st, <<>>))

\* basic_unit_filter_impl::first_match_on_map
BasicFirstMatch(impl, w, st) == FirstLoop(impl, 1, w, st)

\* what a build can do on units().begin().get_shared_ptr() when begin() is
\* end(): the iterator does not point to a unit, so the call stops on the
\* assertion of the iterator, or reads a handle that is not there, which
\* may come out empty or pointing at something that is no unit of the map
EndDeref == {"abort", "empty", "garbage"}

\* a handle that points at no unit of the map
Garbage == Some(0)

\* null_unit_filter_impl::first_match_on_map: the handle of units().begin(),
\* with no test for the empty map; ub is what the build does in that case
NullFirstMatch(impl, w, st, ub) ==
    IF Len(w.units) > 0 THEN [st |-> st, ret |-> Some(1)]
    ELSE CASE ub = "abort" -> [st |-> Throw(st, "abort"), ret |-> None]
           [] ub = "empty" -> [st |-> st, ret |-> None]
           [] ub = "garbage" -> [st |-> st, ret |-> Garbage]

first_match_on_map(impl, w, st, ub) ==
    IF impl.kind = "null" THEN NullFirstMatch(impl, w, st, ub) ELSE BasicFirstMatch(impl, w, st)

(***************************************************************************)
(* The inputs: the worlds and the descriptions the filters are built from. *)
(***************************************************************************)
SeqUpTo(S, n) == UNION {[1..k -> S] : k \in 0..n}

Range(seq) == {seq[k] : k \in 1..Len(seq)}

World(units, recall, fog, gd, lk) ==
    [units |-> units, recall |-> recall, fog |-> fog, gd |-> gd, lk |-> lk]

\* the units of the map and of the recall lists
Ua == Unit("a", 1, Loc(0, 0), FALSE, TRUE)
Ub == Unit("b", 2, Loc(0, 1), FALSE, FALSE)
Uc == Unit("b", 1, Loc(1, 0), TRUE, TRUE)
Ra == Unit("a", 1, NullLoc, FALSE, FALSE)
Rb == Unit("b", 2, NullLoc, TRUE, TRUE)

NoFog == [s \in Sides |-> {}]

\* what the store holds under a variable name
Missing == [kind |-> "missing", ids |-> <<>>]
Scalar == [kind |-> "scalar", ids |-> <<>>]
Array(ids) == [kind |-> "array", ids |-> ids]

Store(content) == Some([n \in VariableNames |-> content])

\* the units a query can be made about
Entities(w) == Range(w.units) \cup w.recall

\* the world most scenarios run in
W0 == World(<<Ua, Ub>>, {Ra, Rb}, NoFog, Store(Array(<<"a">>)), TRUE)

\* the aliases already on the stack when the filter is queried: none, or the
\* alias the caller has bound for a recall list unit
OuterAlias == [name |-> "this_unit", loc |-> NullLoc, by |-> <<Step("caller", 0, "")>>]
InitialScopes == {<<>>, <<OuterAlias>>}

Scenario(w, vcfg, stack) == [world |-> w, vcfg |-> vcfg, scoped |-> stack]

\* leaf descriptions
IdDesc(id) == [BlankDesc EXCEPT !.id = id]
LuaDesc == [BlankDesc EXCEPT !.lua_function = "f"]
AtDesc(locs) ==
    [BlankDesc EXCEPT !.children = <<Child("filter_location", [BlankDesc EXCEPT !.locs = locs])>>]
DoubleLocDesc ==
    [BlankDesc EXCEPT !.children =
        <<Child("filter_location", [BlankDesc EXCEPT !.locs = {Loc(0, 0)}]),
          Child("filter_location", [BlankDesc EXCEPT !.locs = {Loc(0, 1)}])>>]

\* the combinator fold: a filter on the id with up to MaxCond combinator
\* children, each testing the location or running the lua callback
CondEntries == {Child(t, c) : t \in ConditionalTags, c \in {AtDesc({Loc(0, 0)}), LuaDesc}}

FoldDescs == {[IdDesc("a") EXCEPT !.children = cs] : cs \in SeqUpTo(CondEntries, MaxCond)}

FoldScenarios == {Scenario(W0, d, stack) : d \in FoldDescs, stack \in InitialScopes}

\* adjacency sub-filters, alone, under a combinator and next to one
AdjDesc(id, dirs) == [BlankDesc EXCEPT !.id = id, !.adjacent = dirs]

AdjacentDescs ==
    {[BlankDesc EXCEPT !.children = <<Child("filter_adjacent", AdjDesc(id, dirs))>>] :
        id \in {Blank, "b"}, dirs \in {Blank, "n"}}
    \cup
    {[BlankDesc EXCEPT !.children =
        <<Child("filter_adjacent", AdjDesc(Blank, Blank)),
          Child(t, [BlankDesc EXCEPT !.children =
                      <<Child("filter_adjacent", AdjDesc("a", Blank))>>])>>] :
        t \in ConditionalTags}

AdjacentScenarios ==
    {Scenario(World(<<Ub, Uc>>, {Ra}, NoFog, Store(Missing), TRUE), d, stack) :
        d \in AdjacentDescs, stack \in InitialScopes}

\* the counting of neighbours: one adjacency sub-filter whose nested filter,
\* directions, enemy requirement and accepted counts vary, asked about units
\* that stand next to none, one or two others
CountChild(id, dirs, is_enemy, count) ==
    Child("filter_adjacent",
          [AdjDesc(id, dirs) EXCEPT !.is_enemy = is_enemy, !.count = count])

CountDescs ==
    {[BlankDesc EXCEPT !.children = <<CountChild(id, dirs, is_enemy, count)>>] :
        id \in {Blank, "b"}, dirs \in {Blank, "s", "n,s"},
        is_enemy \in {Blank, "yes", "no"}, count \in {Blank, "0", "2-6", "0,2"}}

CountWorlds ==
    {World(us, {Ra}, NoFog, Store(Missing), TRUE) : us \in {<<Ua, Ub>>, <<Ub, Uc>>}}

CountScenarios == {Scenario(w, d, <<>>) : w \in CountWorlds, d \in CountDescs}

\* the x/y range check: each of x and y unset, empty, the word of the recall
\* list, a column or row, or a range of them
XYValues == {Blank, "", "recall", "1", "1-2"}

XYDescs == {[BlankDesc EXCEPT !.x = x, !.y = y] : x \in XYValues, y \in XYValues}

XYScenarios == {Scenario(W0, d, <<>>) : d \in XYDescs}

\* vision sub-filters: the required visibility, the viewers and the fog vary
VisionChild(visible, viewers) ==
    Child("filter_vision", [BlankDesc EXCEPT !.visible = visible, !.viewers = viewers])

VisionDescs ==
    {[BlankDesc EXCEPT !.children = <<VisionChild(v, vs)>>] :
        v \in {Blank, "yes", "no"}, vs \in SUBSET Sides}
    \cup
    {[BlankDesc EXCEPT !.children = <<VisionChild("no", {1}), VisionChild(v, {2})>>] :
        v \in {"yes", "no"}}

VisionWorlds ==
    {World(<<Ua, Uc>>, {Ra}, [s \in Sides |-> IF s = 1 THEN f1 ELSE f2], Store(Missing), TRUE) :
        f1 \in {{}, {Loc(0, 0)}}, f2 \in {{}, {Loc(0, 0), Loc(1, 0)}}}

VisionScenarios == {Scenario(w, d, <<>>) : w \in VisionWorlds, d \in VisionDescs}

\* the stored variable check: the name and what the store holds vary
FindInDescs ==
    {[IdDesc(id) EXCEPT !.find_in = n] : id \in {Blank, "a"}, n \in {"units", "units["}}

StoreWorlds ==
    {World(<<Ua, Ub>>, {Ra}, NoFog, gd, TRUE) :
        gd \in {None} \cup {Store(c) : c \in {Missing, Scalar, Array(<<>>), Array(<<"a">>),
                                               Array(<<"b", "a">>)}}}

FindInScenarios == {Scenario(w, d, <<>>) : w \in StoreWorlds, d \in FindInDescs}

\* the lua callback check: with and without a kernel, after the other checks
LuaDescs ==
    {[BlankDesc EXCEPT !.id = id, !.find_in = n, !.lua_function = "f"] :
        id \in {Blank, "a"}, n \in {Blank, "units"}}

LuaWorlds == {World(<<Ua, Ub>>, {Ra, Rb}, NoFog, Store(Array(<<"a", "b">>)), lk) : lk \in BOOLEAN}

LuaScenarios == {Scenario(w, d, <<>>) : w \in LuaWorlds, d \in LuaDescs}

\* the map queries: up to MaxUnits units in any order, null and basic filters
Injective(seq) == \A i, j \in 1..Len(seq) : seq[i] = seq[j] => i = j

QueryWorlds ==
    {World(us, {Ra}, NoFog, Store(Missing), TRUE) :
        us \in {q \in SeqUpTo({Ua, Ub, Uc}, MaxUnits) : Injective(q)}}

QueryDescs ==
    {NullDesc, BlankDesc, IdDesc("a"), IdDesc("b"), LuaDesc,
     [IdDesc("a") EXCEPT !.children = <<Child("or", AtDesc({Loc(1, 0)}))>>]}

QueryScenarios == {Scenario(w, d, <<>>) : w \in QueryWorlds, d \in QueryDescs}

\* the construction pass: up to MaxTags children of every kind of tag
TagEntries ==
    {Child("filter_location", [BlankDesc EXCEPT !.locs = {Loc(0, 0)}]),
     Child("filter_side", [BlankDesc EXCEPT !.sides = {1}]),
     Child("filter_wml", BlankDesc),
     Child("and", IdDesc("a")),
     Child("not", DoubleLocDesc)}

TagDescs == {[BlankDesc EXCEPT !.children = cs] : cs \in SeqUpTo(TagEntries, MaxTags)}

TagScenarios == {Scenario(W0, d, <<>>) : d \in TagDescs}

Scenarios ==
    FoldScenarios \cup AdjacentScenarios \cup VisionScenarios \cup FindInScenarios
    \cup LuaScenarios \cup QueryScenarios \cup TagScenarios \cup CountScenarios
    \cup XYScenarios

(***************************************************************************)
(* The state machine: a filter is constructed from the description and     *)
(* then queried.                                                           *)
(***************************************************************************)
Idle == [op |-> "none"]

Init ==
    \E s \in Scenarios :
        /\ world = s.world
        /\ desc = s.vcfg
        /\ scoped = s.scoped
        /\ filter = None
        /\ call = Idle

\* unit_filter::unit_filter(vcfg, fc, flat_tod)
Construct ==
    /\ filter = None
    /\ filter' = Some(construct(desc))
    /\ UNCHANGED <<world, desc, scoped, call>>

Usable == filter # None /\ filter[1].ok

\* the record of a query: its operation and inputs, the stack of aliases it
\* started from, the evaluation state it ended in and what it returned (u and
\* loc are the inputs of matches; the map queries take none and ret is theirs)
Call(op, u, loc, before, r) ==
    [op |-> op, u |-> u, loc |-> loc, before |-> before, st |-> r.st, ret |-> r.ret]

\* unit_filter::matches(u, loc)
Matches(u, loc) ==
    /\ Usable
    /\ call' = Call("matches", u, loc, scoped,
                    [st |-> matches(filter[1].impl, u, loc, world, StartState(scoped), <<>>),
                     ret |-> None])
    /\ scoped' = call'.st.scoped
    /\ UNCHANGED <<world, desc, filter>>

\* unit_filter::all_matches_on_map()
AllMatches ==
    /\ Usable
    /\ call' = Call("all_matches", Ra, NullLoc, scoped,
                    all_matches_on_map(filter[1].impl, world, StartState(scoped)))
    /\ scoped' = call'.st.scoped
    /\ UNCHANGED <<world, desc, filter>>

\* unit_filter::first_match_on_map()
FirstMatch(ub) ==
    /\ Usable
    /\ call' = Call("first_match", Ra, NullLoc, scoped,
                    first_match_on_map(filter[1].impl, world, StartState(scoped), ub))
    /\ scoped' = call'.st.scoped
    /\ UNCHANGED <<world, desc, filter>>

Next ==
    \/ Construct
    \/ \E u \in Entities(world), loc \in AllLocs : Matches(u, loc)
    \/ AllMatches
    \/ \E ub \in EndDeref : FirstMatch(ub)

Spec == Init /\ [][Next]_vars

(***************************************************************************)
(* Properties.                                                             *)
(***************************************************************************)
\* the filter that was built, when the construction succeeded
Impl == filter[1].impl

\* a matches query has just been answered
Matched == Usable /\ call.op = "matches"

\* what a filter answers to a query made on its own, outside any other query
Answer(impl, u, loc) == matches(impl, u, loc, world, StartState(<<>>), <<>>).result

\* what the local predicate of a basic filter answers
Local(impl, u, loc) == InternalMatchesFilter(impl, u, loc, world, StartState(<<>>), <<>>)

\* the events of a trace that are of one kind and of one call
Events(trace, ev, path) == {k \in 1..Len(trace) : trace[k].ev = ev /\ trace[k].path = path}

\* C1: a filter built from a null description matches every entity at every
\* location, valid or not
C1_NullMatchesEverything ==
    (Matched /\ desc.null) =>
        /\ Impl.kind = "null"
        /\ call.st.result = TRUE
        /\ call.st.thrown = NoThrow

\* a null filter has answered a query about a recall list unit at the invalid location
C1_Witness ==
    /\ Matched /\ desc.null
    /\ call.u \in world.recall /\ ~Valid(call.loc)
    /\ call.st.result

RECURSIVE LeftFold(_, _, _, _, _)

\* the left fold of the first n combinator children over acc, with operators
\* that take the value of both operands
LeftFold(impl, n, u, loc, acc) ==
    IF n = 0 THEN acc
    ELSE
        LET before == LeftFold(impl, n - 1, u, loc, acc)
            c == Answer(impl.cond_children_[n], u, loc)
            type == impl.cond_child_types_[n]
        IN  (type = "and" /\ before /\ c)
            \/ (type = "or" /\ (before \/ c))
            \/ (type = "not" /\ before /\ ~c)

\* C2: the answer of a basic filter is the left fold, in description order, of
\* its combinator children over the answer of the local predicate; with no
\* combinator child it is the answer of the local predicate
C2_MatchesIsLeftFold ==
    (Matched /\ Impl.kind = "basic") =>
        /\ call.st.thrown = NoThrow
        /\ call.st.result =
              LeftFold(Impl, Len(Impl.cond_children_), call.u, call.loc,
                       Local(Impl, call.u, call.loc).result)
        /\ Impl.cond_children_ = <<>> =>
              call.st.result = Local(Impl, call.u, call.loc).result
        /\ Impl.cond_child_types_ =
              [k \in 1..Len(Impl.cond_children_) |->
                  SelectSeq(desc.children, LAMBDA c : c.key \in ConditionalTags)[k].key]

\* children [and f1, or f2], the local predicate false, f1 false, f2 true: the filter matches
C2_Witness ==
    /\ Matched /\ Impl.kind = "basic"
    /\ Impl.cond_child_types_ = <<"and", "or">>
    /\ ~Local(Impl, call.u, call.loc).result
    /\ ~Answer(Impl.cond_children_[1], call.u, call.loc)
    /\ Answer(Impl.cond_children_[2], call.u, call.loc)
    /\ call.st.result

\* the number of times combinator child i of the queried filter was evaluated
Evaluations(i) == Cardinality(Events(call.st.trace, "matches", <<Step("cond", i, "")>>))

\* C3 as stated: in one matches call every combinator child of the filter is
\* evaluated exactly once, whatever the accumulator when the child is reached
C3_EveryChildEvaluatedOnce ==
    (Matched /\ Impl.kind = "basic") =>
        \A i \in 1..Len(Impl.cond_children_) : Evaluations(i) = 1

\* C3 as amended: a combinator child is evaluated once when the accumulator
\* does not decide the result of its operator (true before [and] and [not],
\* false before [or]) and not at all when it does
C3_ChildEvaluatedWhenNeeded ==
    (Matched /\ Impl.kind = "basic") =>
        \A i \in 1..Len(Impl.cond_children_) :
            LET acc == LeftFold(Impl, i - 1, call.u, call.loc,
                                Local(Impl, call.u, call.loc).result)
                needed == IF Impl.cond_child_types_[i] = "or" THEN ~acc ELSE acc
            IN  Evaluations(i) = IF needed THEN 1 ELSE 0

\* a query in which the lua callback of an [and] child was not run because the
\* accumulator was false, next to a child that was evaluated
C3_Witness ==
    /\ Matched /\ Impl.kind = "basic"
    /\ Len(Impl.cond_children_) = 2
    /\ Impl.cond_child_types_[1] = "or" /\ Evaluations(1) = 1
    /\ Impl.cond_child_types_[2] = "and" /\ Evaluations(2) = 0
    /\ Impl.cond_children_[2].cfg_lua_function_ # Blank
    /\ \A k \in 1..Len(call.st.trace) : call.st.trace[k].ev # "lua"

\* the positions in the map order of the units the filter matches at their own location
Hits == {k \in 1..Len(world.units) : Answer(Impl, world.units[k], world.units[k].loc)}

Min(S) == CHOOSE i \in S : \A j \in S : i <= j

\* C4 as stated: for a null or a basic filter and every world, the empty one
\* included, first_match returns the first unit in the map order that the
\* filter matches, and the empty handle when it matches none
C4_FirstMatchIsFirstHit ==
    (Usable /\ call.op = "first_match") =>
        /\ call.st.thrown = NoThrow
        /\ call.ret = IF Hits = {} THEN None ELSE Some(Min(Hits))

\* C5: all_matches returns the units the filter matches, each once, in the map
\* order, wherever they stand in the map
C5_AllMatchesExact ==
    (Usable /\ call.op = "all_matches") =>
        /\ call.st.thrown = NoThrow
        /\ call.ret = SelectSeq([k \in 1..Len(world.units) |-> k], LAMBDA k : k \in Hits)

\* a basic filter that leaves out the first unit of the map and returns the second
C5_Witness ==
    /\ Usable /\ call.op = "all_matches"
    /\ Impl.kind = "basic"
    /\ Len(world.units) = 2
    /\ call.ret = <<2>>

\* the children of a description that carry one tag
Positions(d, tag) == {i \in 1..Len(d.children) : d.children[i].key = tag}

\* the second smallest element of a set of positions
Second(S) == CHOOSE i \in S : Cardinality({j \in S : j < i}) = 1

\* the tags whose block is compiled by a nested constructor
NestedTags == ConditionalTags \cup {"filter_adjacent"}

RECURSIVE Malformed(_)

\* a description some node of which holds two [filter_location] or two [filter_side]
Malformed(d) ==
    /\ ~d.null
    /\ \/ Cardinality(Positions(d, "filter_location")) >= 2
       \/ Cardinality(Positions(d, "filter_side")) >= 2
       \/ \E i \in 1..Len(d.children) :
            d.children[i].key \in NestedTags /\ Malformed(d.children[i].cfg)

\* the children of a node at which its construction cannot go on: the second
\* [filter_location], the second [filter_side], and a nested malformed block
Fatal(d) ==
    {i \in 1..Len(d.children) :
        \/ Cardinality(Positions(d, "filter_location")) >= 2
            /\ i = Second(Positions(d, "filter_location"))
        \/ Cardinality(Positions(d, "filter_side")) >= 2
            /\ i = Second(Positions(d, "filter_side"))
        \/ d.children[i].key \in NestedTags /\ Malformed(d.children[i].cfg)}

\* C6: the construction of a basic filter raises the fatal error at the second
\* [filter_location] or the second [filter_side] of a node, wherever they
\* stand among the other children (unless the error of a nested node, raised
\* the same way, has ended the pass before), and a node with at most one of
\* each never raises it
C6_SecondBlockIsFatal ==
    (filter # None /\ ~desc.null) =>
        LET r == filter[1] IN
        /\ r.ok <=> Fatal(desc) = {}
        /\ ~r.ok =>
            /\ r.at = Min(Fatal(desc))
            /\ r.nested <=> desc.children[r.at].key \in NestedTags
            /\ ~r.nested =>
                /\ desc.children[r.at].key \in {"filter_location", "filter_side"}
                /\ r.at = Second(Positions(desc, desc.children[r.at].key))
                /\ r.error = IF desc.children[r.at].key = "filter_location"
                             THEN MultipleLocation ELSE MultipleSide
        /\ (Cardinality(Positions(desc, "filter_location")) <= 1
            /\ Cardinality(Positions(desc, "filter_side")) <= 1) => (r.ok \/ r.nested)

\* two [filter_location] with another child between them: the error is raised at the third child
C6_Witness ==
    /\ filter # None /\ ~desc.null
    /\ Len(desc.children) = 3
    /\ desc.children[1].key = "filter_location"
    /\ desc.children[2].key = "filter_wml"
    /\ desc.children[3].key = "filter_location"
    /\ ~filter[1].ok /\ filter[1].at = 3 /\ filter[1].error = MultipleLocation

\* the alias a matches call binds for itself
OwnAlias(e) == [name |-> "this_unit", loc |-> e.loc, by |-> e.path]

\* C7: in a matches call the alias this_unit is bound while the local predicate
\* runs if and only if the location is valid, every binding made is released
\* again, also when the local predicate returns early and in the nested calls
\* of combinator and adjacency filters, and the aliases of the context are
\* after the call what they were before it
C7_AliasScoped ==
    Matched =>
        LET tr == call.st.trace IN
        /\ call.st.scoped = call.before
        /\ scoped = call.before
        /\ \A k \in 1..Len(tr) :
            tr[k].ev = "local" =>
                /\ Valid(tr[k].loc) <=>
                      (tr[k].scoped # <<>> /\ tr[k].scoped[Len(tr[k].scoped)] = OwnAlias(tr[k]))
                /\ ~Valid(tr[k].loc) => \A j \in 1..Len(tr[k].scoped) : tr[k].scoped[j].by # tr[k].path
        /\ \A k \in 1..Len(tr) :
            tr[k].ev = "bind" =>
                \E j \in (k + 1)..Len(tr) :
                    /\ tr[j].ev = "release" /\ tr[j].path = tr[k].path
                    /\ tr[j].scoped = SubSeq(tr[k].scoped, 1, Len(tr[k].scoped) - 1)

\* a query at a valid location, under an alias of the caller, that does not
\* match and has bound aliases in the nested call of an adjacency filter and
\* in that of a combinator child
C7_Witness ==
    /\ Matched /\ Valid(call.loc) /\ ~call.st.result
    /\ call.before # <<>>
    /\ \E k \in 1..Len(call.st.trace) :
        /\ call.st.trace[k].ev = "bind"
        /\ Len(call.st.trace[k].path) = 1 /\ call.st.trace[k].path[1].k = "adj"
    /\ \E k \in 1..Len(call.st.trace) :
        /\ call.st.trace[k].ev = "bind"
        /\ Len(call.st.trace[k].path) = 2 /\ call.st.trace[k].path[1].k = "cond"

\* the store of the context holds no array under the name with an element of
\* that id: the name is invalid, the variable is missing or a scalar, or no
\* element carries the id
NotInStore(gd, name, id) ==
    \/ name \notin VariableNames
    \/ gd[name].kind # "array"
    \/ \A k \in 1..Len(gd[name].ids) : gd[name].ids[k] # id

\* C8 as stated: with a find_in key the local predicate does not match, and no
\* error propagates, when the named variable is not stored (no store included),
\* is invalid, is no array or has no element of the id of the entity
C8_FindInFailsClosed ==
    (Matched /\ Impl.kind = "basic" /\ Impl.cfg_find_in_ # Blank) =>
        /\ Local(Impl, call.u, call.loc).thrown = NoThrow
        /\ (world.gd = None \/ NotInStore(world.gd[1], Impl.cfg_find_in_, call.u.id)) =>
              ~Local(Impl, call.u, call.loc).result

\* C8 as amended: the check fails closed when the context has game data, and
\* is skipped, counting as satisfied, when the context has none
C8_FindInFailsClosedWithGameData ==
    (Matched /\ Impl.kind = "basic" /\ Impl.cfg_find_in_ # Blank) =>
        /\ Local(Impl, call.u, call.loc).thrown = NoThrow
        /\ (world.gd # None /\ NotInStore(world.gd[1], Impl.cfg_find_in_, call.u.id)) =>
              ~Local(Impl, call.u, call.loc).result
        /\ world.gd = None =>
              Local(Impl, call.u, call.loc).result =
                  Local([Impl EXCEPT !.cfg_find_in_ = Blank], call.u, call.loc).result

\* a filter whose find_in names an invalid variable, queried about a unit
\* that passes its other checks: no match and no error
C8_Witness ==
    /\ Matched /\ Impl.kind = "basic"
    /\ Impl.cfg_find_in_ \notin VariableNames \cup {Blank}
    /\ world.gd # None
    /\ Local([Impl EXCEPT !.cfg_find_in_ = Blank], call.u, call.loc).result
    /\ ~call.st.result /\ call.st.thrown = NoThrow

\* C9: with a lua_function key and no lua kernel the scripting check is
\* skipped and counts as satisfied: the local predicate answers as without
\* the key, no callback runs and no error is raised; with a kernel, when the
\* earlier checks pass, the local predicate matches only if the callback
\* returns true for the entity
C9_LuaSkippedWithoutKernel ==
    (Matched /\ Impl.kind = "basic" /\ Impl.cfg_lua_function_ # Blank) =>
        LET l == Local(Impl, call.u, call.loc)
            l0 == Local([Impl EXCEPT !.cfg_lua_function_ = Blank], call.u, call.loc)
        IN  /\ l.thrown = NoThrow
            /\ ~world.lk =>
                /\ l.result = l0.result
                /\ Events(l.trace, "lua", <<>>) = {}
            /\ (world.lk /\ l0.result) => (l.result => call.u.lua)

\* no kernel, and a unit for which the callback would return false: it matches
C9_Witness ==
    /\ Matched /\ Impl.kind = "basic" /\ Impl.cfg_lua_function_ # Blank
    /\ ~world.lk /\ ~call.u.lua
    /\ call.st.result

\* the [filter_vision] blocks of a description, in order
VisionBlocks(d) == SelectSeq(d.children, LAMBDA c : c.key = "filter_vision")

\* a viewer side sees the unit at the location: no fog of that side covers
\* the location and the unit is not concealed
Sees(viewer, u, loc) == ~(loc \in world.fog[viewer] \/ u.hides)

\* a vision block passes: some viewer sees the unit as the block requires
\* (visible defaults to true)
Passes(f, u, loc) ==
    \E viewer \in f.viewers : Sees(viewer, u, loc) <=> f.visible \notin {"no", "false"}

\* C10: a vision sub-filter passes if and only if at least one side of its
\* viewer set sees the entity with the required visibility, and a filter of
\* vision sub-filters alone matches when each of them passes
C10_VisionAnyViewer ==
    (Matched /\ Impl.kind = "basic") =>
        LET blocks == VisionBlocks(desc) IN
        /\ Len(Impl.vision_filters_viewers_lists_) = Len(blocks)
        /\ \A i \in 1..Len(blocks) :
              VisionFound(Impl, i, call.u, call.loc, world)
                  <=> Passes(blocks[i].cfg, call.u, call.loc)
        /\ (blocks # <<>> /\ Len(blocks) = Len(desc.children)) =>
              (call.st.result <=> \A i \in 1..Len(blocks) : Passes(blocks[i].cfg, call.u, call.loc))

\* visible=no for viewer side 1 alone: an unconcealed unit under the fog of side 1 matches
C10_Witness ==
    /\ Matched /\ Impl.kind = "basic"
    /\ Len(desc.children) = 1 /\ VisionBlocks(desc) # <<>>
    /\ desc.children[1].cfg.visible = "no" /\ desc.children[1].cfg.viewers = {1}
    /\ call.loc \in world.fog[1] /\ ~call.u.hides
    /\ call.st.result

(***************************************************************************)
(* C11: the counting of neighbours by an adjacency sub-filter.             *)
(***************************************************************************)
\* the [filter_adjacent] blocks of a description, in order
AdjacentBlocks(d) == SelectSeq(d.children, LAMBDA c : c.key = "filter_adjacent")

\* the directions a block asks about: the ones it lists, all six by default
Directions(f) ==
    IF f.adjacent = Blank THEN {"n", "ne", "se", "s", "sw", "nw"}
    ELSE Range(ParseDirections(f.adjacent))

\* the counts a block accepts: the ones of its ranges, 1 to 6 by default
Accepted(f) ==
    IF f.count = Blank THEN 1..6
    ELSE {n \in 0..6 : InRanges(n, ParseRanges(f.count))}

\* the enemy/ally requirement of a block, on a neighbour of side other of a
\* unit of side side: none when is_enemy is not set
Relation(f, side, other) ==
    f.is_enemy = Blank \/ ((f.is_enemy \in {"yes", "true"}) <=> side # other)

\* the directions of block f in which u, tested at loc, has a neighbour that
\* the nested filter matches and that stands in the required relation to u
Qualifying(f, nested, u, loc) ==
    {d \in Directions(f) :
        \E k \in 1..Len(world.units) :
            /\ world.units[k].loc = Adjacent(loc, d)
            /\ Answer(nested, world.units[k], world.units[k].loc)
            /\ Relation(f, u.side, world.units[k].side)}

\* block i of the description passes for u at loc
CountPasses(i, u, loc) ==
    LET f == AdjacentBlocks(desc)[i].cfg IN
    Cardinality(Qualifying(f, Impl.filter_adj_filters_[i], u, loc)) \in Accepted(f)

\* C11: the adjacency sub-filters of a basic filter pass together if and only
\* if, for each, the number of neighbours in its directions (all six by
\* default) that exist, match the nested filter and satisfy the enemy/ally
\* requirement lies in its accepted counts (1 to 6 by default); the local
\* predicate fails when one of them does not pass, so that a filter made of
\* adjacency sub-filters alone matches exactly when each of them passes
C11_AdjacencyCounts ==
    (Matched /\ Impl.kind = "basic") =>
        LET blocks == AdjacentBlocks(desc)
            all == \A i \in 1..Len(blocks) : CountPasses(i, call.u, call.loc)
        IN  /\ Len(Impl.filter_adj_filters_) = Len(blocks)
            /\ AdjLoop(Impl, 1, call.u, call.loc, world, StartState(<<>>), <<>>).result <=> all
            /\ ~all => ~Local(Impl, call.u, call.loc).result
            /\ (blocks # <<>> /\ Len(blocks) = Len(desc.children)) =>
                  (call.st.result <=> all)

\* one direction, the default counts and exactly one qualifying neighbour in
\* that direction, required to be an enemy: the filter matches
C11_Witness ==
    /\ Matched /\ Impl.kind = "basic"
    /\ Len(desc.children) = 1 /\ Len(AdjacentBlocks(desc)) = 1
    /\ desc.children[1].cfg.adjacent = "s" /\ desc.children[1].cfg.count = Blank
    /\ desc.children[1].cfg.is_enemy = "yes"
    /\ Cardinality(Qualifying(desc.children[1].cfg, Impl.filter_adj_filters_[1],
                               call.u, call.loc)) = 1
    /\ call.st.result

(***************************************************************************)
(* C12: the explicit x/y range check.                                      *)
(***************************************************************************)
\* the description sets nothing but x and y
OnlyXY == desc = [BlankDesc EXCEPT !.x = desc.x, !.y = desc.y]

\* a key is present when the description sets it, be it to the empty string
Present(attr) == attr # Blank

\* the 1-based columns or rows that a value of x or y names (a word names 0)
Named(attr) ==
    CASE attr = "1" -> {1}
      [] attr = "1-2" -> {1, 2}
      [] attr = "recall" -> {0}
      [] OTHER -> {}

====
